---- MODULE Spec2Model ----
(***************************************************************************)
(* Model of scripts/opcodes.py: the opcode table generator.               *)
(*                                                                         *)
(* The script reads the pages of scripts/opcodes.pdf, collects every      *)
(* regular-expression match of "NAME = DECIMAL (0xHEX)", renders one Zig  *)
(* constant declaration per match and writes the table to src/op.zig.     *)
(*                                                                         *)
(* Text is modelled as a sequence of one-character strings, so that the   *)
(* matcher, the upper-casing and the string assembly are computed         *)
(* character by character as the interpreter computes them.                *)
(***************************************************************************)
EXTENDS Naturals, Sequences, FiniteSets, TLC

(***************************************************************************)
(* Bounds of the model.                                                    *)
(***************************************************************************)
\* pages of the document
MaxPages == 2
\* text fragments in the whole document
MaxFrags == 2

(***************************************************************************)
(* Character classes of the regular expression (Python 3 str patterns,    *)
(* restricted to ASCII).                                                   *)
(***************************************************************************)
LowerSeq == <<"a","b","c","d","e","f","g","h","i","j","k","l","m",
              "n","o","p","q","r","s","t","u","v","w","x","y","z">>
UpperSeq == <<"A","B","C","D","E","F","G","H","I","J","K","L","M",
              "N","O","P","Q","R","S","T","U","V","W","X","Y","Z">>
Range(s) == {s[i] : i \in 1..Len(s)}
\* [0-9]
Digit == {"0","1","2","3","4","5","6","7","8","9"}
\* \w
Word == Range(LowerSeq) \cup Range(UpperSeq) \cup Digit \cup {"_"}
\* \s
Space == {" ", "\t", "\n", "\r", "\f"}
\* [0-9A-Fa-f]
HexDigit == Digit \cup {"a","b","c","d","e","f","A","B","C","D","E","F"}

(***************************************************************************)
(* The fixed strings of the script.                                        *)
(***************************************************************************)
\* "pub const Op = struct {" + '\n'
op_template_start ==
    <<"p","u","b"," ","c","o","n","s","t"," ","O","p"," ","=",
      " ","s","t","r","u","c","t"," ","{","\n">>
\* '\n' + "};"
op_template_end == <<"\n","}",";">>

(***************************************************************************)
(* re.findall(op_regex, text)                                              *)
(*                                                                         *)
(*  op_regex = ((?P<Op>\w+)\s*=\s*[0-9]+\s*(?:\((?P<Hex>0x[0-9A-Fa-f]+)\)))+*)
(*                                                                         *)
(* Every quantified class of the pattern is followed by a literal or a    *)
(* class disjoint from it (\w+ by \s*=, \s* by = or [0-9] or \(, [0-9]+   *)
(* by \s*\(, the hex digits by \) ), so a backtracking engine can only    *)
(* succeed with each of them matched maximally: one item of the pattern   *)
(* matches deterministically from a given start.                           *)
(***************************************************************************)
At(t, i) == IF i \in 1..Len(t) THEN t[i] ELSE ""

RECURSIVE SkipWhile(_, _, _)
\* the first index j >= i at which t has no character of class S
SkipWhile(t, i, S) ==
    IF i <= Len(t) /\ t[i] \in S THEN SkipWhile(t, i + 1, S) ELSE i

NoMatch == [ok |-> FALSE]

\* one iteration of the outer group, anchored at index i
MatchItem(t, i) ==
    LET a == SkipWhile(t, i, Word)          \* (?P<Op>\w+)
        b == SkipWhile(t, a, Space)         \* \s*
        c == SkipWhile(t, b + 1, Space)     \* = \s*
        d == SkipWhile(t, c, Digit)         \* [0-9]+
        e == SkipWhile(t, d, Space)         \* \s*
        f == SkipWhile(t, e + 3, HexDigit)  \* \( 0x [0-9A-Fa-f]+
    IN  IF /\ a > i
           /\ At(t, b) = "="
           /\ d > c
           /\ At(t, e) = "("
           /\ At(t, e + 1) = "0"
           /\ At(t, e + 2) = "x"
           /\ f > e + 3
           /\ At(t, f) = ")"
        THEN [ok |-> TRUE, start |-> i, next |-> f + 1,
              g1  |-> SubSeq(t, i, f),
              Op  |-> SubSeq(t, i, a - 1),
              Hex |-> SubSeq(t, e + 1, f - 1)]
        ELSE NoMatch

RECURSIVE Repeat(_, _)
\* the trailing + of the outer group: iterate greedily, the groups keep the
\* captures of the last iteration
Repeat(t, m) ==
    LET n == MatchItem(t, m.next)
    IN  IF n.ok THEN Repeat(t, [n EXCEPT !.start = m.start]) ELSE m

\* the whole pattern anchored at index i
MatchAt(t, i) ==
    LET m == MatchItem(t, i)
    IN  IF m.ok THEN Repeat(t, m) ELSE NoMatch

RECURSIVE FindIter(_, _)
\* the leftmost non-overlapping matches of the pattern in t from index i on
FindIter(t, i) ==
    IF i > Len(t) THEN <<>>
    ELSE LET m == MatchAt(t, i)
         IN  IF m.ok THEN <<m>> \o FindIter(t, m.next)
             ELSE FindIter(t, i + 1)

\* re.findall: with three groups in the pattern, a list of 3-tuples
FindAll(t) ==
    LET ms == FindIter(t, 1)
    IN  [k \in 1..Len(ms) |-> <<ms[k].g1, ms[k].Op, ms[k].Hex>>]

(***************************************************************************)
(* Rendering and assembly (lines 15-22).                                   *)
(***************************************************************************)
\* str.upper() on one ASCII character
UpperChar(c) ==
    IF c \in Range(LowerSeq)
    THEN UpperSeq[CHOOSE i \in 1..Len(LowerSeq) : LowerSeq[i] = c]
    ELSE c

\* op.upper()
Upper(s) == [i \in 1..Len(s) |-> UpperChar(s[i])]

\* the name is rendered as captured, without upper()
op_strAsCaptured(match) ==
    <<" "," "," "," ","p","u","b"," ","c","o","n","s","t"," ">>
    \o match[2] \o <<":"," ","u","8"," ","="," ">> \o match[3] \o <<";">>

\* _, op, hex = match ; f"    pub const {op.upper()}: u8 = {hex};"
op_str(match) ==
    LET op  == match[2]
        hex == match[3]
    IN  <<" "," "," "," ","p","u","b"," ","c","o","n","s","t"," ">>
        \o Upper(op) \o <<":"," ","u","8"," ","="," ">> \o hex \o <<";">>

RECURSIVE AppendAllPrepending(_, _)
\* every line is inserted at the front of the list
AppendAllPrepending(list, ms) ==
    IF ms = <<>> THEN list
    ELSE AppendAllPrepending(<<op_str(Head(ms))>> \o list, Tail(ms))

RECURSIVE AppendAllDistinct(_, _)
\* a line already in the list is not appended again
AppendAllDistinct(list, ms) ==
    IF ms = <<>> THEN list
    ELSE LET line == op_str(Head(ms))
         IN  AppendAllDistinct(IF line \in Range(list) THEN list
                               ELSE Append(list, line), Tail(ms))

RECURSIVE AppendAll(_, _)
\* for match in matches: op_list.append(op_str)
AppendAll(list, ms) ==
    IF ms = <<>> THEN list
    ELSE AppendAll(Append(list, op_str(Head(ms))), Tail(ms))

RECURSIVE JoinTerminating(_, _)
\* the separator follows every element, the last one included
JoinTerminating(sep, list) ==
    IF list = <<>> THEN <<>>
    ELSE list[1] \o sep \o JoinTerminating(sep, Tail(list))

RECURSIVE Join(_, _)
\* sep.join(list)
Join(sep, list) ==
    IF list = <<>> THEN <<>>
    ELSE IF Len(list) = 1 THEN list[1]
    ELSE list[1] \o sep \o Join(sep, Tail(list))

\* op_zig = op_template_start + '\n'.join(op_list) + op_template_end
Assembled(list) == op_template_start \o Join(<<"\n">>, list) \o op_template_end

(***************************************************************************)
(* The documents the model reads: the text of each page is a              *)
(* concatenation of fragments in the layout the script expects, with and  *)
(* without separating whitespace, in either letter case, and with the     *)
(* parenthesized hex missing.                                              *)
(***************************************************************************)
\* "STOP = 0 (0x00)"
FragStop == <<"S","T","O","P"," ","="," ","0"," ","(","0","x","0","0",")">>
\* "ADD = 1 (0x01)"
FragAdd == <<"A","D","D"," ","="," ","1"," ","(","0","x","0","1",")">>
\* "\nstop=7(0x00)": lower case, no blanks, another decimal, on a new line
FragStopLower == <<"\n","s","t","o","p","=","7","(","0","x","0","0",")">>
\* "\nadd = 1": no parenthesized hex
FragNoHex == <<"\n","a","d","d"," ","="," ","1">>
\* "\nPush_1\t=96 (0x6f)": mixed case, digits and underscore, lower-case hex
FragPush ==
    <<"\n","P","u","s","h","_","1","\t","=","9","6"," ","(","0","x","6","f",")">>

Fragments == {FragStop, FragAdd, FragStopLower, FragNoHex, FragPush}

RECURSIVE Texts(_)
\* the page texts made of exactly n fragments
Texts(n) ==
    IF n = 0 THEN {<<>>}
    ELSE {f \o t : f \in Fragments, t \in Texts(n - 1)}

RECURSIVE Docs(_, _)
\* the documents of at most p pages holding at most n fragments
Docs(p, n) ==
    IF p = 0 THEN {<<>>}
    ELSE {<<>>} \cup
         UNION {{<<t>> \o d : t \in Texts(k), d \in Docs(p - 1, n - k)} : k \in 0..n}

\* src/op.zig before the first run: absent, or holding some earlier content
NoFile == [exists |-> FALSE, content |-> <<>>]
InitialFiles == {NoFile, [exists |-> TRUE, content |-> <<"o","l","d">>]}

(***************************************************************************)
(* State.                                                                  *)
(***************************************************************************)
VARIABLES
    doc,        \* scripts/opcodes.pdf: the extractable text of each page
    file,       \* src/op.zig: [exists, content]
    pc,         \* the statement the interpreter is at
    err,        \* the exception that ended the run, "none" if none
    pageIdx,    \* position of the for loop in reader.pages
    matches,    \* matches
    op_list,    \* op_list
    op_zig,     \* op_zig
    fOpen,      \* whether the handle f on src/op.zig is open
    fileBefore, \* src/op.zig as it was when this run started
    firstExit   \* how the earlier run ended, "none" in the first run

vars == <<doc, file, pc, err, pageIdx, matches, op_list, op_zig, fOpen,
          fileBefore, firstExit>>

Init ==
    /\ doc \in Docs(MaxPages, MaxFrags)
    /\ file \in InitialFiles
    /\ fileBefore = file
    /\ pc = "reader"
    /\ err = "none"
    /\ pageIdx = 0
    /\ matches = <<>>
    /\ op_list = <<>>
    /\ op_zig = <<>>
    /\ fOpen = FALSE
    /\ firstExit = "none"

\* an uncaught exception ends the process
Raise(e) ==
    /\ pc' = "aborted"
    /\ err' = e

(***************************************************************************)
(* reader = PdfReader("scripts/opcodes.pdf")                               *)
(***************************************************************************)
\* the destination is opened for writing before the document is read
OpenDocumentAfterOpenDest ==
    /\ pc = "reader"
    /\ file' = [exists |-> TRUE, content |-> <<>>]
    /\ pc' = "loop"
    /\ pageIdx' = 1
    /\ UNCHANGED <<doc, err, matches, op_list, op_zig, fOpen,
                   fileBefore, firstExit>>

OpenDocument ==
    /\ pc = "reader"
    /\ pc' = "loop"
    /\ pageIdx' = 1
    /\ UNCHANGED <<doc, file, err, matches, op_list, op_zig, fOpen,
                   fileBefore, firstExit>>

\* the file is missing or cannot be parsed
OpenDocumentFails ==
    /\ pc = "reader"
    /\ Raise("DocumentReadError")
    /\ UNCHANGED <<doc, file, pageIdx, matches, op_list, op_zig, fOpen,
                   fileBefore, firstExit>>

(***************************************************************************)
(* One iteration of: for op_page in reader.pages                           *)
(***************************************************************************)
ProcessPage ==
    /\ pc = "loop"
    /\ pageIdx <= Len(doc)
    /\ LET found == FindAll(doc[pageIdx])
       IN  /\ matches' = found
           /\ op_list' = IF found = <<>> THEN op_list
                         ELSE AppendAll(op_list, found)
    /\ pageIdx' = pageIdx + 1
    /\ UNCHANGED <<doc, file, pc, err, op_zig, fOpen, fileBefore, firstExit>>

\* op_page.extract_text() raises
ExtractFails ==
    /\ pc = "loop"
    /\ pageIdx <= Len(doc)
    /\ Raise("DocumentReadError")
    /\ UNCHANGED <<doc, file, pageIdx, matches, op_list, op_zig, fOpen,
                   fileBefore, firstExit>>

(***************************************************************************)
(* Lines 20-22, once the loop is exhausted.                                *)
(***************************************************************************)
\* nothing is written when no opcode was found
AssembleUnlessEmpty ==
    /\ pc = "loop"
    /\ pageIdx > Len(doc)
    /\ IF op_list = <<>>
       THEN pc' = "done" /\ UNCHANGED op_zig
       ELSE pc' = "open" /\ op_zig' = Assembled(op_list)
    /\ UNCHANGED <<doc, file, err, pageIdx, matches, op_list, fOpen,
                   fileBefore, firstExit>>

Assemble ==
    /\ pc = "loop"
    /\ pageIdx > Len(doc)
    /\ op_zig' = Assembled(op_list)
    /\ pc' = "open"
    /\ UNCHANGED <<doc, file, err, pageIdx, matches, op_list, fOpen,
                   fileBefore, firstExit>>

(***************************************************************************)
(* with open("src/op.zig", "w") as f: f.write(op_zig)                      *)
(***************************************************************************)
\* mode "a": the file is created if missing and its content is kept
OpenDestAppending ==
    /\ pc = "open"
    /\ file' = [file EXCEPT !.exists = TRUE]
    /\ fOpen' = TRUE
    /\ pc' = "write"
    /\ UNCHANGED <<doc, err, pageIdx, matches, op_list, op_zig,
                   fileBefore, firstExit>>

\* mode "w" creates the file or truncates it
OpenDest ==
    /\ pc = "open"
    /\ file' = [exists |-> TRUE, content |-> <<>>]
    /\ fOpen' = TRUE
    /\ pc' = "write"
    /\ UNCHANGED <<doc, err, pageIdx, matches, op_list, op_zig,
                   fileBefore, firstExit>>

\* the directory does not exist or is not writable
OpenDestFails ==
    /\ pc = "open"
    /\ Raise("FileWriteError")
    /\ UNCHANGED <<doc, file, pageIdx, matches, op_list, op_zig, fOpen,
                   fileBefore, firstExit>>

\* the joined lines are written without the template around them
WriteDestLinesOnly ==
    /\ pc = "write"
    /\ file' = [file EXCEPT !.content = @ \o Join(<<"\n">>, op_list)]
    /\ pc' = "exit"
    /\ UNCHANGED <<doc, err, pageIdx, matches, op_list, op_zig, fOpen,
                   fileBefore, firstExit>>

\* f.write(op_zig): written at the position of the handle, the end of the file
WriteDest ==
    /\ pc = "write"
    /\ file' = [file EXCEPT !.content = @ \o op_zig]
    /\ pc' = "exit"
    /\ UNCHANGED <<doc, err, pageIdx, matches, op_list, op_zig, fOpen,
                   fileBefore, firstExit>>

\* the lengths of the prefix a failed write may leave behind: nothing, the
\* opening line, all but the last character
PartialLengths(s) == {0, Len(op_template_start), Len(s) - 1}

\* the write fails (device full, I/O error): a prefix reached the file
WriteDestFails ==
    /\ pc = "write"
    /\ \E n \in PartialLengths(op_zig) :
         file' = [file EXCEPT !.content = @ \o SubSeq(op_zig, 1, n)]
    /\ err' = "IOError"
    /\ pc' = "exit"
    /\ UNCHANGED <<doc, pageIdx, matches, op_list, op_zig, fOpen,
                   fileBefore, firstExit>>

\* leaving the with block closes f, on the normal and on the exceptional path
CloseDest ==
    /\ pc = "exit"
    /\ fOpen' = FALSE
    /\ pc' = IF err = "none" THEN "done" ELSE "aborted"
    /\ UNCHANGED <<doc, file, err, pageIdx, matches, op_list, op_zig,
                   fileBefore, firstExit>>

(***************************************************************************)
(* The script is run again on the unchanged document: a new process       *)
(* executes the module body from its first line.                           *)
(***************************************************************************)
Rerun ==
    /\ pc \in {"done", "aborted"}
    /\ firstExit = "none"
    /\ firstExit' = pc
    /\ fileBefore' = file
    /\ pc' = "reader"
    /\ err' = "none"
    /\ pageIdx' = 0
    /\ matches' = <<>>
    /\ op_list' = <<>>
    /\ op_zig' = <<>>
    /\ UNCHANGED <<doc, file, fOpen>>

Next ==
    \/ OpenDocument
    \/ OpenDocumentFails
    \/ ProcessPage
    \/ ExtractFails
    \/ Assemble
    \/ OpenDest
    \/ OpenDestFails
    \/ WriteDest
    \/ WriteDestFails
    \/ CloseDest
    \/ Rerun

Spec == Init /\ [][Next]_vars

(***************************************************************************)
(* Operators used to state the properties.                                 *)
(***************************************************************************)
RECURSIVE Str(_)
\* a sequence of characters as a string
Str(s) ==
    IF s = <<>> THEN ""
    ELSE IF Len(s) = 1 THEN s[1]
    ELSE LET h == Len(s) \div 2
         IN  Str(SubSeq(s, 1, h)) \o Str(SubSeq(s, h + 1, Len(s)))

\* s cut at its newlines
Split(s) ==
    LET nl == {i \in 1..Len(s) : s[i] = "\n"}
        \* the index of the k-th newline; 0 before the text, Len(s) + 1 after it
        cut(k) == IF k = 0 THEN 0
                  ELSE IF k > Cardinality(nl) THEN Len(s) + 1
                  ELSE CHOOSE i \in nl : Cardinality({j \in nl : j < i}) = k - 1
    IN  [k \in 1..(Cardinality(nl) + 1) |-> SubSeq(s, cut(k - 1) + 1, cut(k) - 1)]

NonEmpty(l) == l # <<>>

\* the declaration lines of a written table: what stands between its first
\* and its last line
OutputLines(content) ==
    LET ls == Split(content)
    IN  SelectSeq(SubSeq(ls, 2, Len(ls) - 1), NonEmpty)

RECURSIVE Occurrences(_, _)
\* the matches of the pages p.. of document d in reading order, each with its
\* page and the index in the page text where it starts
Occurrences(d, p) ==
    IF p > Len(d) THEN <<>>
    ELSE LET ms == FindIter(d[p], 1)
         IN  [k \in 1..Len(ms) |->
                 [page |-> p, start |-> ms[k].start,
                  Op |-> ms[k].Op, Hex |-> ms[k].Hex]]
             \o Occurrences(d, p + 1)

Earlier(A, B) ==
    \/ A.page < B.page
    \/ A.page = B.page /\ A.start < B.start

\* the pairs <<lower-case letter, its upper-case letter>>
CasePairs ==
    { <<"a","A">>, <<"b","B">>, <<"c","C">>, <<"d","D">>, <<"e","E">>,
      <<"f","F">>, <<"g","G">>, <<"h","H">>, <<"i","I">>, <<"j","J">>,
      <<"k","K">>, <<"l","L">>, <<"m","M">>, <<"n","N">>, <<"o","O">>,
      <<"p","P">>, <<"q","Q">>, <<"r","R">>, <<"s","S">>, <<"t","T">>,
      <<"u","U">>, <<"v","V">>, <<"w","W">>, <<"x","X">>, <<"y","Y">>,
      <<"z","Z">> }

\* ident is name with every character folded to upper case
IsUpperFold(ident, name) ==
    /\ Len(ident) = Len(name)
    /\ \A i \in 1..Len(name) :
         IF \E q \in CasePairs : q[1] = name[i]
         THEN <<name[i], ident[i]>> \in CasePairs
         ELSE ident[i] = name[i]

\* line is the declaration of the captured name and hex literal
IsDeclaration(line, name, hex) ==
    LET n == Len(name)
        h == Len(hex)
    IN  /\ Len(line) = 22 + n + h
        /\ Str(SubSeq(line, 1, 14)) = "    pub const "
        /\ IsUpperFold(SubSeq(line, 15, 14 + n), name)
        /\ Str(SubSeq(line, 15 + n, 21 + n)) = ": u8 = "
        /\ SubSeq(line, 22 + n, 21 + n + h) = hex
        /\ line[22 + n + h] = ";"

\* the identifier a declaration line declares
IdentOf(line) == SubSeq(line, 15, SkipWhile(line, 15, Word) - 1)

Count(seq, P(_)) == Cardinality({i \in 1..Len(seq) : P(seq[i])})

Finished == pc \in {"done", "aborted"}

(***************************************************************************)
(* C1: the declaration lines of the written table stand in the order in   *)
(* which their opcodes were matched: page by page, and within a page by   *)
(* the position in the text.                                               *)
(***************************************************************************)
OrderPreserved ==
    pc = "done" =>
        LET occ == Occurrences(doc, 1)
            out == OutputLines(file.content)
        IN  /\ Len(out) = Len(occ)
            /\ \A i \in 1..Len(occ) : IsDeclaration(out[i], occ[i].Op, occ[i].Hex)
            /\ \A i, j \in 1..Len(occ) : Earlier(occ[i], occ[j]) => i < j

\* a table written from two different opcodes matched on two pages
OrderPreservedWitness ==
    /\ pc = "done"
    /\ LET occ == Occurrences(doc, 1)
           out == OutputLines(file.content)
       IN  /\ Len(occ) = 2
           /\ occ[1].page < occ[2].page
           /\ out[1] # out[2]

(***************************************************************************)
(* C2: the matcher yields one (name, hex) pair, with its own name and     *)
(* hex, for each non-overlapping occurrence of one "identifier = digits   *)
(* (0xhex)" in the page text, also for occurrences that directly follow   *)
(* one another, and none for text without a parenthesized hex; so the     *)
(* table has one declaration line per occurrence.                          *)
(***************************************************************************)
RECURSIVE ItemScan(_, _)
\* the leftmost non-overlapping occurrences of a single item in t from i on
ItemScan(t, i) ==
    IF i > Len(t) THEN <<>>
    ELSE LET m == MatchItem(t, i)
         IN  IF m.ok THEN <<<<m.Op, m.Hex>>>> \o ItemScan(t, m.next)
             ELSE ItemScan(t, i + 1)

RECURSIVE ItemTotal(_, _)
ItemTotal(d, p) ==
    IF p > Len(d) THEN 0 ELSE Len(ItemScan(d[p], 1)) + ItemTotal(d, p + 1)

HasParenHex(t) ==
    \E i \in 1..Len(t) : At(t, i) = "(" /\ At(t, i + 1) = "0" /\ At(t, i + 2) = "x"

OnePairPerOccurrence ==
    /\ (pc = "loop" /\ pageIdx > 1) =>
         LET t == doc[pageIdx - 1]
         IN  /\ [k \in 1..Len(matches) |-> <<matches[k][2], matches[k][3]>>]
                  = ItemScan(t, 1)
             /\ ~HasParenHex(t) => matches = <<>>
    /\ pc = "done" => Len(OutputLines(file.content)) = ItemTotal(doc, 1)

(***************************************************************************)
(* C3: a run that aborts because the document could not be read leaves    *)
(* the destination as it was before the run, in existence and content.     *)
(***************************************************************************)
ReadFailureLeavesDestination ==
    (pc = "aborted" /\ err = "DocumentReadError") => file = fileBefore

\* a page failed after earlier pages had produced matches
ReadFailureWitness ==
    /\ pc = "aborted"
    /\ err = "DocumentReadError"
    /\ op_list # <<>>
    /\ pageIdx > 1

(***************************************************************************)
(* C4 as claimed: a document without extractable text on any page ends    *)
(* the run in a DocumentReadError with the destination untouched (a run   *)
(* that fails on the destination itself is left aside).                    *)
(***************************************************************************)
\* the document has pages and none of them yields text
NoExtractableText == Len(doc) > 0 /\ \A p \in 1..Len(doc) : doc[p] = <<>>

NoTextEndsInReadError ==
    (NoExtractableText /\ Finished /\ err \notin {"FileWriteError", "IOError"})
        => (pc = "aborted" /\ err = "DocumentReadError" /\ file = fileBefore)

(***************************************************************************)
(* C4 as amended: a run on a document without extractable text that       *)
(* completes has raised nothing and has overwritten the destination with  *)
(* the table without declarations.                                         *)
(***************************************************************************)
NoTextWritesEmptyTable ==
    (NoExtractableText /\ pc = "done") =>
        /\ err = "none"
        /\ file.exists
        /\ Str(file.content) = "pub const Op = struct {\n\n};"

\* two pages without text, and a destination that held something else
NoTextWitness ==
    /\ NoExtractableText
    /\ Len(doc) = 2
    /\ pc = "done"
    /\ fileBefore # file

(***************************************************************************)
(* C5: the written table is the opening line and a newline, the           *)
(* declaration lines joined by single newlines, a newline and "};".       *)
(***************************************************************************)
RECURSIVE Lined(_, _)
\* the first n lines of list as one string, a newline between neighbours
Lined(list, n) ==
    IF n = 0 THEN ""
    ELSE IF n = 1 THEN Str(list[1])
    ELSE Lined(list, n - 1) \o "\n" \o Str(list[n])

ArtifactShape ==
    pc = "done" =>
        /\ Str(file.content) =
             "pub const Op = struct {" \o "\n"
               \o Lined(op_list, Len(op_list)) \o "\n" \o "};"
        /\ doc = <<FragStop, FragAdd>> =>
             Str(file.content) =
               "pub const Op = struct {\n    pub const STOP: u8 = 0x00;\n    pub const ADD: u8 = 0x01;\n};"

\* Scenario 4: STOP on page 1, ADD on page 2
ArtifactShapeWitness ==
    /\ pc = "done"
    /\ doc = <<FragStop, FragAdd>>
    /\ Len(op_list) = 2

(***************************************************************************)
(* C6: the table has as many declaration lines as the matcher yielded     *)
(* pairs over all pages, and every identifier is declared as many times   *)
(* as a name folding to it was matched.                                    *)
(***************************************************************************)
\* two names that differ in letter case at most
FoldAlike(a, b) ==
    /\ Len(a) = Len(b)
    /\ \A i \in 1..Len(a) :
         a[i] = b[i] \/ <<a[i], b[i]>> \in CasePairs \/ <<b[i], a[i]>> \in CasePairs

RECURSIVE PairTotal(_, _)
PairTotal(d, p) ==
    IF p > Len(d) THEN 0 ELSE Len(FindAll(d[p])) + PairTotal(d, p + 1)

NoDeduplication ==
    pc = "done" =>
        LET occ == Occurrences(doc, 1)
            out == OutputLines(file.content)
        IN  /\ Len(out) = PairTotal(doc, 1)
            /\ \A k \in 1..Len(occ) :
                 LET SameIdent(line) == IsUpperFold(IdentOf(line), occ[k].Op)
                     SameName(o) == FoldAlike(o.Op, occ[k].Op)
                 IN  Count(out, SameIdent) = Count(occ, SameName)

\* one identifier declared twice, from a name matched in two casings
NoDeduplicationWitness ==
    /\ pc = "done"
    /\ LET occ == Occurrences(doc, 1)
           out == OutputLines(file.content)
       IN  /\ Len(out) = 2
           /\ Len(occ) = 2
           /\ occ[1].Op # occ[2].Op
           /\ IdentOf(out[1]) = IdentOf(out[2])

(***************************************************************************)
(* C7: a run that completes after a completed run on the same document    *)
(* leaves the destination as the first run left it, and what a completed  *)
(* run leaves is the table of the document's matches, whatever the        *)
(* destination held before.                                                *)
(***************************************************************************)
Idempotent ==
    pc = "done" =>
        /\ firstExit = "done" => file = fileBefore
        /\ file.exists
        /\ LET occ == Occurrences(doc, 1)
               out == OutputLines(file.content)
               ls == Split(file.content)
           IN  /\ Len(out) = Len(occ)
               /\ Len(ls) = IF Len(occ) = 0 THEN 3 ELSE Len(occ) + 2
               /\ Str(ls[1]) = "pub const Op = struct {"
               /\ Str(ls[Len(ls)]) = "};"

\* the second of two completed runs, on a destination that held a table with
\* declarations
IdempotentWitness ==
    /\ pc = "done"
    /\ firstExit = "done"
    /\ op_list # <<>>
    /\ file = fileBefore

(***************************************************************************)
(* C8: after a page is processed, the lines appended for its matches are  *)
(* each four spaces, "pub const ", the captured name folded to upper      *)
(* case, ": u8 = ", the captured hex literal unchanged and ";".           *)
(***************************************************************************)
RenderedLine ==
    (pc = "loop" /\ pageIdx > 1 /\ matches # <<>>) =>
        /\ Len(op_list) >= Len(matches)
        /\ \A k \in 1..Len(matches) :
             IsDeclaration(op_list[Len(op_list) - Len(matches) + k],
                           matches[k][2], matches[k][3])

\* two names differing in case and decimal value, rendered alike
RenderedLineWitness ==
    /\ pc = "loop"
    /\ pageIdx > 1
    /\ Len(matches) = 2
    /\ Len(op_list) = 2
    /\ matches[1][2] # matches[2][2]
    /\ matches[1][1] # matches[2][1]
    /\ op_list[1] = op_list[2]

(***************************************************************************)
(* C9 as claimed: when a run has ended, the destination holds what it     *)
(* held before the run or the complete new table.                          *)
(***************************************************************************)
AllOrNothing ==
    Finished =>
        \/ file = fileBefore
        \/ op_zig # <<>> /\ file = [exists |-> TRUE, content |-> op_zig]

(***************************************************************************)
(* C9 as amended: a completed run leaves the complete new table; a run    *)
(* aborted while reading the document or opening the destination leaves   *)
(* the destination as it was; a run aborted by a failed write leaves the  *)
(* destination existing and holding a prefix of the new table.             *)
(***************************************************************************)
IsPrefix(s, t) == Len(s) <= Len(t) /\ SubSeq(t, 1, Len(s)) = s

WriteOutcome ==
    /\ pc = "done" => file = [exists |-> TRUE, content |-> op_zig]
    /\ (pc = "aborted" /\ err \in {"DocumentReadError", "FileWriteError"})
         => file = fileBefore
    /\ (pc = "aborted" /\ err = "IOError")
         => file.exists /\ IsPrefix(file.content, op_zig)

\* a failed write left the opening line only, over a file that existed
WriteOutcomeWitness ==
    /\ pc = "aborted"
    /\ err = "IOError"
    /\ fileBefore.exists
    /\ file.content = op_template_start
    /\ file.content # op_zig

====
